---- MODULE Spec2Model ----
(***************************************************************************)
(* RDHEM heating technology cost, energy, carbon and payback model         *)
(* (rdhem_primary_energy_costs_v5.py).                                     *)
(*                                                                         *)
(* The script is a Streamlit page: every user interaction with a sidebar   *)
(* widget starts a fresh run of the whole script, which copies the         *)
(* "Edit Technologies" widgets into st.session_state, evaluates Scenario A *)
(* (run_model, apply_payback_and_grant) and, when enabled, Scenario B.     *)
(*                                                                         *)
(* Numbers: the script computes in floating point; the model computes the  *)
(* same expressions over exact rationals <<numerator, denominator>> kept   *)
(* in lowest terms with a positive denominator.                            *)
(***************************************************************************)
EXTENDS Integers, Sequences, FiniteSets

(***************************************************************************)
(* Exact rational arithmetic                                               *)
(***************************************************************************)
RECURSIVE GCD(_, _)
GCD(a, b) ==
    IF b = 0 THEN a ELSE GCD(b, a % b)

Abs(n) ==
    IF n < 0 THEN -n ELSE n

Rat(n, d) ==
    LET g == GCD(Abs(n), Abs(d))
        s == IF d < 0 THEN -1 ELSE 1
    IN  <<(s * n) \div g, (s * d) \div g>>

Whole(n) ==
    <<n, 1>>

Zero ==
    <<0, 1>>

One ==
    <<1, 1>>

Hundred ==
    <<100, 1>>

RMul(a, b) ==
    LET g1 == GCD(Abs(a[1]), b[2])
        g2 == GCD(Abs(b[1]), a[2])
    IN  Rat((a[1] \div g1) * (b[1] \div g2), (a[2] \div g2) * (b[2] \div g1))

RDiv(a, b) ==
    RMul(a, IF b[1] < 0 THEN <<-b[2], -b[1]>> ELSE <<b[2], b[1]>>)

RAdd(a, b) ==
    LET g == GCD(a[2], b[2])
    IN  Rat(a[1] * (b[2] \div g) + b[1] * (a[2] \div g), (a[2] \div g) * b[2])

RSub(a, b) ==
    RAdd(a, <<-b[1], b[2]>>)

RPos(a) ==
    a[1] > 0

RLeq0(a) ==
    a[1] <= 0

\* int(x): truncation towards zero
Trunc(a) ==
    IF a[1] >= 0 THEN a[1] \div a[2] ELSE -((-a[1]) \div a[2])

\* variant of Round: the ceiling
Round_Ceil(a) ==
    IF a[1] % a[2] = 0 THEN a[1] \div a[2] ELSE (a[1] \div a[2]) + 1

\* round(x) of Python 3: to the nearest integer, a tie to the even one
Round(a) ==
    LET q == a[1] \div a[2]
        r == a[1] % a[2]
    IN  IF 2 * r < a[2] THEN q
        ELSE IF 2 * r > a[2] THEN q + 1
        ELSE IF q % 2 = 0 THEN q ELSE q + 1

(***************************************************************************)
(* Technologies and fuels                                                  *)
(***************************************************************************)
technologies ==
    << "LTASHP", "HTASHP", "LTGSHP", "AAHP",
       "Storage Heater", "Electric Boiler", "Infrared Heater",
       "Gas Condensing Boiler", "Gas Non-Condensing Boiler" >>

TechSet ==
    {technologies[i] : i \in 1..Len(technologies)}

fuel_type ==
    [t \in TechSet |->
        IF t \in {"Gas Condensing Boiler", "Gas Non-Condensing Boiler"}
        THEN "gas" ELSE "electric"]

heat_demand_lookup ==
    [a \in {"Smaller Mid-Terrace On-Gas", "Larger Detached On-Gas",
            "Larger Detached Off-Gas"} |->
        CASE a = "Smaller Mid-Terrace On-Gas" -> Whole(6400)
          [] a = "Larger Detached On-Gas" -> Whole(17600)
          [] a = "Larger Detached Off-Gas" -> Whole(21800)]

defaults ==
    [efficiencies |->
        [t \in TechSet |->
            CASE t = "LTASHP" -> Rat(286, 100)
              [] t = "HTASHP" -> Rat(273, 100)
              [] t = "LTGSHP" -> Rat(353, 100)
              [] t = "AAHP" -> Rat(204, 100)
              [] t = "Storage Heater" -> One
              [] t = "Electric Boiler" -> One
              [] t = "Infrared Heater" -> One
              [] t = "Gas Condensing Boiler" -> Rat(895, 1000)
              [] t = "Gas Non-Condensing Boiler" -> Rat(6, 10)],
     co2_factors |->
        [t \in TechSet |->
            CASE t = "LTASHP" -> Rat(74, 1000)
              [] t = "HTASHP" -> Rat(77, 1000)
              [] t = "LTGSHP" -> Rat(60, 1000)
              [] t = "AAHP" -> Rat(103, 1000)
              [] t = "Storage Heater" -> Rat(222, 1000)
              [] t = "Electric Boiler" -> Rat(211, 1000)
              [] t = "Infrared Heater" -> Rat(211, 1000)
              [] t = "Gas Condensing Boiler" -> Rat(184, 1000)
              [] t = "Gas Non-Condensing Boiler" -> Rat(184, 1000)],
     install_costs |->
        [t \in TechSet |->
            CASE t = "LTASHP" -> Whole(12000)
              [] t = "HTASHP" -> Whole(14000)
              [] t = "LTGSHP" -> Whole(20000)
              [] t = "AAHP" -> Whole(6800)
              [] t = "Storage Heater" -> Whole(4500)
              [] t = "Electric Boiler" -> Whole(5000)
              [] t = "Infrared Heater" -> Whole(6500)
              [] t = "Gas Condensing Boiler" -> Whole(3500)
              [] t = "Gas Non-Condensing Boiler" -> Whole(3000)]]

(***************************************************************************)
(* State                                                                   *)
(*   sidebar widgets: archetype .. gas_sc, and the per-technology          *)
(*     "Edit Technologies" inputs eff_w, co2_w, capex_w                    *)
(*   st.session_state: efficiencies, co2_factors, install_costs            *)
(*   script variables of the current run: df (the frame run_model returned *)
(*     and apply_payback_and_grant is about to receive), df_A, df_B        *)
(*   pc: position of the current script run; err: the exception that       *)
(*     ended it                                                            *)
(* A frame is the sequence of its rows in `technologies` order; a frame    *)
(* not (yet) assigned, and None, is the empty sequence.                    *)
(***************************************************************************)
VARIABLES archetype, baseline, discount_A, enable_B, discount_B, eff_mult_B,
          enable_grant, grant_tech, grant_type, grant_value,
          elec_price, gas_price, gas_sc,
          eff_w, co2_w, capex_w,
          efficiencies, co2_factors, install_costs,
          df, df_A, df_B, pc, err

widgets ==
    <<archetype, baseline, discount_A, enable_B, discount_B, eff_mult_B,
      enable_grant, grant_tech, grant_type, grant_value,
      elec_price, gas_price, gas_sc, eff_w, co2_w, capex_w>>

session_state ==
    <<efficiencies, co2_factors, install_costs>>

vars ==
    <<widgets, session_state, df, df_A, df_B, pc, err>>

(***************************************************************************)
(* MODEL                                                                   *)
(***************************************************************************)
\* variant of UnitCostMap: the discount taken off both fuels
UnitCostMap_DiscountAll(discount) ==
    [f \in {"electric", "gas"} |->
        RMul(IF f = "electric" THEN elec_price ELSE gas_price,
             RSub(One, RDiv(Whole(discount), Hundred)))]

\* the map of line 229: electricity discounted, gas not
UnitCostMap(discount) ==
    [f \in {"electric", "gas"} |->
        IF f = "electric"
        THEN RMul(elec_price, RSub(One, RDiv(Whole(discount), Hundred)))
        ELSE gas_price]

\* variant of StandingChargeMap: the standing charge on both fuels
StandingChargeMap_AllFuels ==
    [f \in {"electric", "gas"} |-> gas_sc]

\* the map of line 234: only gas technologies incur a standing charge
StandingChargeMap ==
    [f \in {"electric", "gas"} |-> IF f = "electric" THEN Zero ELSE gas_sc]

run_model(discount, eff_mult) ==
    LET hd == heat_demand_lookup[archetype]
    IN  [i \in 1..Len(technologies) |->
            LET tech == technologies[i]
                eff == RMul(efficiencies[tech], eff_mult)
                fuel == RDiv(hd, eff)
                unit == UnitCostMap(discount)[fuel_type[tech]]
                sc == StandingChargeMap[fuel_type[tech]]
            IN  [Technology |-> tech,
                 FuelType |-> fuel_type[tech],
                 Efficiency |-> eff,
                 FuelDemand |-> fuel,
                 UnitCost |-> unit,
                 StandingCharge |-> sc,
                 AnnualCost |-> RAdd(RDiv(RMul(fuel, unit), Hundred), sc),
                 CO2 |-> RMul(fuel, co2_factors[tech]),
                 Capex |-> install_costs[tech]]]

\* variant of format_payback_years: twelve rounded months are not carried
format_payback_years_NoCarry(years) ==
    LET y == Trunc(years)
        m == Round(RMul(RSub(years, Whole(y)), Whole(12)))
    IN  [label |-> "y m", y |-> y, m |-> m]

\* the text "{y}y {m}m" is kept as the pair of its two numbers
format_payback_years(years) ==
    LET y == Trunc(years)
        m == Round(RMul(RSub(years, Whole(y)), Whole(12)))
    IN  IF m = 12
        THEN [label |-> "y m", y |-> y + 1, m |-> 0]
        ELSE [label |-> "y m", y |-> y, m |-> m]

Immediate ==
    [label |-> "Immediate", y |-> 0, m |-> 0]

NoPayback ==
    [label |-> "No payback", y |-> 0, m |-> 0]

\* variant of pb: the savings are tested before the extra capex
pb_SavingsFirst(extra, eff_extra, saving) ==
    IF RLeq0(saving) THEN [label |-> "No payback", y |-> 0, m |-> 0]
    ELSE IF RLeq0(extra) THEN [label |-> "Immediate", y |-> 0, m |-> 0]
    ELSE IF RLeq0(eff_extra) THEN [label |-> "Immediate", y |-> 0, m |-> 0]
    ELSE format_payback_years(RDiv(eff_extra, saving))

pb(extra, eff_extra, saving) ==
    IF RLeq0(extra) THEN Immediate
    ELSE IF RLeq0(saving) THEN NoPayback
    ELSE IF RLeq0(eff_extra) THEN Immediate
    ELSE format_payback_years(RDiv(eff_extra, saving))

\* df[df["Technology"] == baseline]
BaselineRows(frame) ==
    SelectSeq(frame, LAMBDA r : r.Technology = baseline)

\* variant of GrantColumn: the mask without the test of the extra capex
GrantColumn_AnyExtraCapex(tech, extra) ==
    IF enable_grant /\ tech = grant_tech
    THEN IF grant_type = "Flat amount"
         THEN grant_value
         ELSE RMul(extra, RDiv(grant_value, Hundred))
    ELSE Zero

\* variant of GrantColumn: the mask without the test of the technology
GrantColumn_EveryRow(tech, extra) ==
    IF enable_grant /\ RPos(extra)
    THEN IF grant_type = "Flat amount"
         THEN grant_value
         ELSE RMul(extra, RDiv(grant_value, Hundred))
    ELSE Zero

\* lines 265-271: the Grant column
GrantColumn(tech, extra) ==
    IF enable_grant /\ tech = grant_tech /\ RPos(extra)
    THEN IF grant_type = "Flat amount"
         THEN grant_value
         ELSE RMul(extra, RDiv(grant_value, Hundred))
    ELSE Zero

\* variant of EffectiveExtraCapex: no clip
EffectiveExtraCapex_NoClip(extra, grant) ==
    RSub(extra, grant)

\* line 273: (extra - grant).clip(lower=0.0)
EffectiveExtraCapex(extra, grant) ==
    LET e == RSub(extra, grant)
    IN  IF e[1] < 0 THEN Zero ELSE e

\* defined where the baseline names a row; otherwise .iloc[0] raises
apply_payback_and_grant(frame) ==
    LET base == BaselineRows(frame)[1]
    IN  [i \in 1..Len(frame) |->
            LET row == frame[i]
                saving == RSub(base.AnnualCost, row.AnnualCost)
                extra == RSub(row.Capex, base.Capex)
                grant == GrantColumn(row.Technology, extra)
                eff_extra == EffectiveExtraCapex(extra, grant)
            IN  [Technology |-> row.Technology,
                 FuelType |-> row.FuelType,
                 Efficiency |-> row.Efficiency,
                 FuelDemand |-> row.FuelDemand,
                 UnitCost |-> row.UnitCost,
                 StandingCharge |-> row.StandingCharge,
                 AnnualCost |-> row.AnnualCost,
                 CO2 |-> row.CO2,
                 Capex |-> row.Capex,
                 AnnualSavings |-> saving,
                 ExtraCapex |-> extra,
                 Grant |-> grant,
                 EffectiveExtraCapex |-> eff_extra,
                 Payback |-> pb(extra, eff_extra, saving)]]

(***************************************************************************)
(* Values the user gives the sidebar widgets; every one lies within the    *)
(* widget's range (lines 120-216).                                         *)
(***************************************************************************)
\* the discount sliders, in steps of ten percent
MaxDiscountTens ==
    1

DiscountChoices ==
    {10 * k : k \in 0..MaxDiscountTens}

EffMultChoices ==
    {Rat(4, 5), One}

GrantTechChoices ==
    {"LTASHP", "Gas Condensing Boiler"}

GrantTypeChoices ==
    {"Flat amount", "Percentage of extra capex"}

GrantValueChoices ==
    {Whole(7500), Whole(7819), Whole(99)}

GasPriceChoices ==
    {Whole(10), Whole(20)}

EfficiencyEdits ==
    {<<"Gas Non-Condensing Boiler", Rat(4, 10)>>,
     <<"Gas Non-Condensing Boiler", Rat(6, 10)>>}

CapexEdits ==
    {<<"LTASHP", Whole(12000)>>, <<"LTASHP", Whole(3500)>>}

(***************************************************************************)
(* One run of the script                                                   *)
(***************************************************************************)
\* lines 194-216: each catalogue entry is assigned its widget's value
EditTechnologies ==
    /\ pc = "edit"
    /\ efficiencies' = [t \in TechSet |-> eff_w[t]]
    /\ co2_factors' = [t \in TechSet |-> co2_w[t]]
    /\ install_costs' = [t \in TechSet |-> capex_w[t]]
    /\ pc' = "A_model"
    /\ UNCHANGED <<widgets, df, df_A, df_B, err>>

\* line 292, the argument: run_model(discount_A, 1.0)
RunModelA ==
    /\ pc = "A_model"
    /\ df' = run_model(discount_A, One)
    /\ pc' = "A_payback"
    /\ UNCHANGED <<widgets, session_state, df_A, df_B, err>>

\* line 292: df_A = apply_payback_and_grant(...)
PaybackA ==
    /\ pc = "A_payback"
    /\ IF BaselineRows(df) = <<>>
       THEN /\ err' = "IndexError"
            /\ pc' = "error"
            /\ UNCHANGED df_A
       ELSE /\ df_A' = apply_payback_and_grant(df)
            /\ pc' = "B_model"
            /\ UNCHANGED err
    /\ UNCHANGED <<widgets, session_state, df, df_B>>

\* variant of RunModelB: the multiplied efficiencies are stored back into
\* st.session_state
RunModelB_StoreBack ==
    /\ pc = "B_model"
    /\ enable_B
    /\ df' = run_model(discount_B, eff_mult_B)
    /\ efficiencies' = [t \in TechSet |-> RMul(efficiencies[t], eff_mult_B)]
    /\ pc' = "B_payback"
    /\ UNCHANGED <<widgets, co2_factors, install_costs, df_A, df_B, err>>

\* line 293, enable_B: run_model(discount_B, eff_mult_B)
RunModelB ==
    /\ pc = "B_model"
    /\ enable_B
    /\ df' = run_model(discount_B, eff_mult_B)
    /\ pc' = "B_payback"
    /\ UNCHANGED <<widgets, session_state, df_A, df_B, err>>

\* line 293, not enable_B: df_B = None
SkipScenarioB ==
    /\ pc = "B_model"
    /\ ~enable_B
    /\ df_B' = <<>>
    /\ pc' = "done"
    /\ UNCHANGED <<widgets, session_state, df, df_A, err>>

\* line 293: df_B = apply_payback_and_grant(...)
PaybackB ==
    /\ pc = "B_payback"
    /\ IF BaselineRows(df) = <<>>
       THEN /\ err' = "IndexError"
            /\ pc' = "error"
            /\ UNCHANGED df_B
       ELSE /\ df_B' = apply_payback_and_grant(df)
            /\ pc' = "done"
            /\ UNCHANGED err
    /\ UNCHANGED <<widgets, session_state, df, df_A>>

(***************************************************************************)
(* User interaction: a changed widget value starts a new run of the        *)
(* script, whose variables start unassigned.                               *)
(***************************************************************************)
Rerun ==
    /\ pc \in {"done", "error"}
    /\ pc' = "edit"
    /\ df' = <<>>
    /\ df_A' = <<>>
    /\ df_B' = <<>>
    /\ err' = "none"
    /\ UNCHANGED session_state

SetBaseline ==
    /\ \E v \in TechSet \ {baseline} : baseline' = v
    /\ Rerun
    /\ UNCHANGED <<archetype, discount_A, enable_B, discount_B, eff_mult_B,
                   enable_grant, grant_tech, grant_type, grant_value,
                   elec_price, gas_price, gas_sc, eff_w, co2_w, capex_w>>

SetDiscountA ==
    /\ \E v \in DiscountChoices \ {discount_A} : discount_A' = v
    /\ Rerun
    /\ UNCHANGED <<archetype, baseline, enable_B, discount_B, eff_mult_B,
                   enable_grant, grant_tech, grant_type, grant_value,
                   elec_price, gas_price, gas_sc, eff_w, co2_w, capex_w>>

SetEnableB ==
    /\ enable_B' = ~enable_B
    /\ Rerun
    /\ UNCHANGED <<archetype, baseline, discount_A, discount_B, eff_mult_B,
                   enable_grant, grant_tech, grant_type, grant_value,
                   elec_price, gas_price, gas_sc, eff_w, co2_w, capex_w>>

\* disabled=not enable_B
SetDiscountB ==
    /\ enable_B
    /\ \E v \in DiscountChoices \ {discount_B} : discount_B' = v
    /\ Rerun
    /\ UNCHANGED <<archetype, baseline, discount_A, enable_B, eff_mult_B,
                   enable_grant, grant_tech, grant_type, grant_value,
                   elec_price, gas_price, gas_sc, eff_w, co2_w, capex_w>>

SetEffMultB ==
    /\ enable_B
    /\ \E v \in EffMultChoices \ {eff_mult_B} : eff_mult_B' = v
    /\ Rerun
    /\ UNCHANGED <<archetype, baseline, discount_A, enable_B, discount_B,
                   enable_grant, grant_tech, grant_type, grant_value,
                   elec_price, gas_price, gas_sc, eff_w, co2_w, capex_w>>

SetEnableGrant ==
    /\ enable_grant' = ~enable_grant
    /\ Rerun
    /\ UNCHANGED <<archetype, baseline, discount_A, enable_B, discount_B,
                   eff_mult_B, grant_tech, grant_type, grant_value,
                   elec_price, gas_price, gas_sc, eff_w, co2_w, capex_w>>

\* disabled=not enable_grant
SetGrantTech ==
    /\ enable_grant
    /\ \E v \in GrantTechChoices \ {grant_tech} : grant_tech' = v
    /\ Rerun
    /\ UNCHANGED <<archetype, baseline, discount_A, enable_B, discount_B,
                   eff_mult_B, enable_grant, grant_type, grant_value,
                   elec_price, gas_price, gas_sc, eff_w, co2_w, capex_w>>

SetGrantType ==
    /\ enable_grant
    /\ \E v \in GrantTypeChoices \ {grant_type} : grant_type' = v
    /\ Rerun
    /\ UNCHANGED <<archetype, baseline, discount_A, enable_B, discount_B,
                   eff_mult_B, enable_grant, grant_tech, grant_value,
                   elec_price, gas_price, gas_sc, eff_w, co2_w, capex_w>>

SetGrantValue ==
    /\ enable_grant
    /\ \E v \in GrantValueChoices \ {grant_value} : grant_value' = v
    /\ Rerun
    /\ UNCHANGED <<archetype, baseline, discount_A, enable_B, discount_B,
                   eff_mult_B, enable_grant, grant_tech, grant_type,
                   elec_price, gas_price, gas_sc, eff_w, co2_w, capex_w>>

SetGasPrice ==
    /\ \E v \in GasPriceChoices \ {gas_price} : gas_price' = v
    /\ Rerun
    /\ UNCHANGED <<archetype, baseline, discount_A, enable_B, discount_B,
                   eff_mult_B, enable_grant, grant_tech, grant_type,
                   grant_value, elec_price, gas_sc, eff_w, co2_w, capex_w>>

EditEfficiency ==
    /\ \E e \in EfficiencyEdits :
          /\ eff_w[e[1]] # e[2]
          /\ eff_w' = [eff_w EXCEPT ![e[1]] = e[2]]
    /\ Rerun
    /\ UNCHANGED <<archetype, baseline, discount_A, enable_B, discount_B,
                   eff_mult_B, enable_grant, grant_tech, grant_type,
                   grant_value, elec_price, gas_price, gas_sc, co2_w, capex_w>>

EditCapex ==
    /\ \E e \in CapexEdits :
          /\ capex_w[e[1]] # e[2]
          /\ capex_w' = [capex_w EXCEPT ![e[1]] = e[2]]
    /\ Rerun
    /\ UNCHANGED <<archetype, baseline, discount_A, enable_B, discount_B,
                   eff_mult_B, enable_grant, grant_tech, grant_type,
                   grant_value, elec_price, gas_price, gas_sc, eff_w, co2_w>>

(***************************************************************************)
(* The page as first loaded: widgets at their defaults, st.session_state   *)
(* holding a copy of `defaults` (lines 112-114), the first run starting.   *)
(***************************************************************************)
Init ==
    /\ archetype = "Smaller Mid-Terrace On-Gas"
    /\ baseline = "LTASHP"
    /\ discount_A = 10
    /\ enable_B = FALSE
    /\ discount_B = 10
    /\ eff_mult_B = One
    /\ enable_grant = FALSE
    /\ grant_tech = "LTASHP"
    /\ grant_type = "Flat amount"
    /\ grant_value = Whole(7500)
    /\ elec_price = Whole(30)
    /\ gas_price = Whole(10)
    /\ gas_sc = Whole(300)
    /\ eff_w = defaults.efficiencies
    /\ co2_w = defaults.co2_factors
    /\ capex_w = defaults.install_costs
    /\ efficiencies = defaults.efficiencies
    /\ co2_factors = defaults.co2_factors
    /\ install_costs = defaults.install_costs
    /\ df = <<>>
    /\ df_A = <<>>
    /\ df_B = <<>>
    /\ pc = "edit"
    /\ err = "none"

ScriptRun ==
    \/ EditTechnologies
    \/ RunModelA
    \/ PaybackA
    \/ RunModelB
    \/ SkipScenarioB
    \/ PaybackB

Next ==
    \/ ScriptRun
    \/ SetBaseline
    \/ SetDiscountA
    \/ SetEnableB
    \/ SetDiscountB
    \/ SetEffMultB
    \/ SetEnableGrant
    \/ SetGrantTech
    \/ SetGrantType
    \/ SetGrantValue
    \/ SetGasPrice
    \/ EditEfficiency
    \/ EditCapex

Spec ==
    Init /\ [][Next]_vars

(***************************************************************************)
(* The evaluation alone, on any setting of the values it reads: the names  *)
(* `baseline` and `grant_tech` are compared with the Technology column as  *)
(* plain strings, so the functions are also defined for a name that is no  *)
(* entry of `technologies`.                                                *)
(***************************************************************************)
UnknownTech ==
    "Hydrogen Boiler"

InitAnyScenario ==
    /\ archetype \in DOMAIN heat_demand_lookup
    /\ baseline \in {"LTASHP", "Gas Condensing Boiler", UnknownTech}
    /\ discount_A \in DiscountChoices
    /\ enable_B \in BOOLEAN
    /\ discount_B \in DiscountChoices
    /\ eff_mult_B \in EffMultChoices
    /\ enable_grant \in BOOLEAN
    /\ grant_tech \in {"LTASHP", UnknownTech}
    /\ grant_type \in GrantTypeChoices
    /\ grant_value = Whole(7500)
    /\ elec_price = Whole(30)
    /\ gas_price = Whole(10)
    /\ gas_sc = Whole(300)
    /\ eff_w = defaults.efficiencies
    /\ co2_w = defaults.co2_factors
    /\ capex_w = defaults.install_costs
    /\ efficiencies = defaults.efficiencies
    /\ co2_factors = defaults.co2_factors
    /\ install_costs = defaults.install_costs
    /\ df = <<>>
    /\ df_A = <<>>
    /\ df_B = <<>>
    /\ pc = "edit"
    /\ err = "none"

SpecScript ==
    InitAnyScenario /\ [][ScriptRun]_vars

(***************************************************************************)
(* Properties                                                              *)
(***************************************************************************)
Rows(frame) ==
    {frame[i] : i \in 1..Len(frame)}

\* the rows of the result tables the current run has produced
ResultRows ==
    Rows(df_A) \cup Rows(df_B)

\* the row takes the last branch of pb
Numeric(row) ==
    /\ RPos(row.ExtraCapex)
    /\ RPos(row.AnnualSavings)
    /\ RPos(row.EffectiveExtraCapex)

PaybackYears(row) ==
    RDiv(row.EffectiveExtraCapex, row.AnnualSavings)

TotalMonths(row) ==
    12 * row.Payback.y + row.Payback.m

\* n is a whole number nearest to 12 * p, for p = whole + r / p[2]
NearestMonth(p, n) ==
    LET whole == p[1] \div p[2]
        r == p[1] % p[2]
    IN  2 * Abs(12 * r - (n - 12 * whole) * p[2]) <= p[2]

\* C1: every row's payback label follows the priority order: extra capex
\* <= 0 gives "Immediate", else savings <= 0 gives "No payback", else
\* effective extra capex <= 0 gives "Immediate", else the label is the
\* years/months pair of effective extra capex / savings.
C1_PaybackPriority ==
    \A row \in ResultRows :
        IF RLeq0(row.ExtraCapex) THEN row.Payback = Immediate
        ELSE IF RLeq0(row.AnnualSavings) THEN row.Payback = NoPayback
        ELSE IF RLeq0(row.EffectiveExtraCapex) THEN row.Payback = Immediate
        ELSE /\ row.Payback.label = "y m"
             /\ NearestMonth(PaybackYears(row), TotalMonths(row))

\* all four branches occur in one table, the third through a flat grant
\* larger than the extra capex
C1_Witness ==
    /\ pc = "done"
    /\ grant_type = "Flat amount"
    /\ \E row \in Rows(df_A) : RLeq0(row.ExtraCapex)
    /\ \E row \in Rows(df_A) :
          RPos(row.ExtraCapex) /\ RLeq0(row.AnnualSavings)
    /\ \E row \in Rows(df_A) :
          /\ RPos(row.ExtraCapex) /\ RPos(row.AnnualSavings)
          /\ RLeq0(row.EffectiveExtraCapex) /\ row.Payback = Immediate
    /\ \E row \in Rows(df_A) : Numeric(row) /\ row.Payback.label = "y m"

\* C2: the baseline's own row has zero extra capex, zero savings, zero grant
\* and the label "Immediate", whatever the inputs (also when the grant
\* targets the baseline).
C2_BaselineRow ==
    \A row \in ResultRows :
        row.Technology = baseline =>
            /\ row.ExtraCapex = Zero
            /\ row.AnnualSavings = Zero
            /\ row.Grant = Zero
            /\ row.Payback = Immediate

C2_Witness ==
    /\ pc = "done"
    /\ enable_grant
    /\ grant_tech = baseline
    /\ \E row \in Rows(df_B) : row.Technology = baseline

\* C3: the grant is non-zero for at most one row of a table: zero off the
\* target, zero for a target with extra capex <= 0, zero everywhere when
\* disabled; a target with extra capex > 0 gets the value (flat) or
\* extra capex * value / 100 (percent).
C3_GrantOnlyTarget ==
    /\ \A row \in ResultRows :
          IF enable_grant /\ row.Technology = grant_tech /\ RPos(row.ExtraCapex)
          THEN IF grant_type = "Flat amount"
               THEN row.Grant = grant_value
               ELSE RMul(row.Grant, Hundred) = RMul(row.ExtraCapex, grant_value)
          ELSE row.Grant = Zero
    /\ \A frame \in {df_A, df_B} :
          Cardinality({i \in 1..Len(frame) : frame[i].Grant # Zero}) <= 1

C3_Witness ==
    /\ pc = "done"
    /\ grant_type = "Percentage of extra capex"
    /\ \E row \in Rows(df_A) : row.Grant # Zero
    /\ \E row \in Rows(df_A) : RPos(row.ExtraCapex) /\ row.Grant = Zero

C5_DiscountMonotone ==
    (pc = "done" /\ enable_B /\ eff_mult_B = One /\ discount_A < discount_B) =>
        \A i \in 1..Len(technologies) :
            IF df_A[i].FuelType = "electric"
            THEN RSub(df_B[i].AnnualCost, df_A[i].AnnualCost)[1] < 0
            ELSE /\ df_B[i].AnnualCost = df_A[i].AnnualCost
                 /\ df_B[i].UnitCost = df_A[i].UnitCost
                 /\ df_B[i].StandingCharge = df_A[i].StandingCharge

C5_Witness ==
    /\ pc = "done"
    /\ enable_B
    /\ eff_mult_B = One
    /\ discount_A < discount_B
    /\ \E i \in 1..Len(df_B) : df_B[i].FuelType = "gas"
    /\ \E i \in 1..Len(df_B) : df_B[i].FuelType = "electric"

EvaluatedAgain ==
    pc = "done" =>
        /\ df_A = apply_payback_and_grant(run_model(discount_A, One))
        /\ enable_B =>
              df_B = apply_payback_and_grant(run_model(discount_B, eff_mult_B))

\* a step of an evaluation changes neither the catalogue nor the prices
EvaluationFrame ==
    pc \in {"A_model", "A_payback", "B_model", "B_payback"} =>
        /\ UNCHANGED <<efficiencies, co2_factors, install_costs>>
        /\ UNCHANGED <<elec_price, gas_price, gas_sc>>

\* C7: an evaluation step leaves the catalogue in st.session_state and the
\* prices as they were, and when a run has finished, evaluating again from
\* the state it left gives the tables it produced.
C7_NoHiddenState ==
    []EvaluatedAgain /\ [][EvaluationFrame]_vars

\* a finished run with Scenario B at another efficiency multiplier, after
\* catalogue edits and a price change
C7_Witness ==
    /\ pc = "done"
    /\ enable_B
    /\ eff_mult_B # One
    /\ install_costs # defaults.install_costs
    /\ efficiencies # defaults.efficiencies
    /\ gas_price # Whole(10)
    /\ df_B # <<>>

\* the scenario of C8: default catalogue values of the two technologies,
\* baseline Gas Condensing Boiler, 6400 kWh, 30 p and 10 p per kWh, gas
\* standing charge 300, discount 0 (Scenario A runs at multiplier 1)
DefaultScenario ==
    /\ pc = "done"
    /\ archetype = "Smaller Mid-Terrace On-Gas"
    /\ baseline = "Gas Condensing Boiler"
    /\ discount_A = 0
    /\ elec_price = Whole(30)
    /\ gas_price = Whole(10)
    /\ gas_sc = Whole(300)
    /\ efficiencies["LTASHP"] = Rat(286, 100)
    /\ install_costs["LTASHP"] = Whole(12000)
    /\ efficiencies["Gas Condensing Boiler"] = Rat(895, 1000)
    /\ install_costs["Gas Condensing Boiler"] = Whole(3500)

\* C8: in the default scenario the LTASHP row has extra capex 8500 and
\* payback 24 years 9 months without a grant, and effective extra capex
\* 1000 and payback 2 years 11 months with a flat grant of 7500 on LTASHP.
C8_DefaultScenario ==
    DefaultScenario =>
        \A row \in Rows(df_A) :
            row.Technology = "LTASHP" =>
                /\ ~enable_grant =>
                      /\ row.ExtraCapex = Whole(8500)
                      /\ row.Payback = [label |-> "y m", y |-> 24, m |-> 9]
                /\ ( /\ enable_grant
                     /\ grant_tech = "LTASHP"
                     /\ grant_type = "Flat amount"
                     /\ grant_value = Whole(7500) ) =>
                      /\ row.ExtraCapex = Whole(8500)
                      /\ row.EffectiveExtraCapex = Whole(1000)
                      /\ row.Payback = [label |-> "y m", y |-> 2, m |-> 11]

C8_Witness ==
    /\ DefaultScenario
    /\ enable_grant
    /\ grant_tech = "LTASHP"
    /\ grant_type = "Flat amount"
    /\ grant_value = Whole(7500)
    /\ df_A[1].Technology = "LTASHP"
    /\ df_A[1].Payback.m = 11

\* C9: a numeric label is years = floor(payback years) and months =
\* round(12 * the fraction), 12 months carried into the next year; so
\* months is within 0..11 and years * 12 + months is payback years * 12
\* rounded to the nearest whole month.
C9_YearsMonths ==
    \A row \in ResultRows :
        Numeric(row) =>
            LET p == PaybackYears(row)
                years == p[1] \div p[2]
                frac == <<p[1] % p[2], p[2]>>
            IN  /\ row.Payback.label = "y m"
                /\ \E months \in 0..12 :
                      /\ NearestMonth(frac, months)
                      /\ row.Payback.y = (IF months = 12 THEN years + 1 ELSE years)
                      /\ row.Payback.m = (IF months = 12 THEN 0 ELSE months)
                /\ row.Payback.m \in 0..11
                /\ NearestMonth(p, TotalMonths(row))

\* a row whose twelve rounded months were carried into the next year
C9_Witness ==
    \E row \in ResultRows :
        /\ Numeric(row)
        /\ row.Payback.m = 0
        /\ row.Payback.y = Trunc(PaybackYears(row)) + 1

\* p < 1 / k, for a whole k > 0
Under(p, k) ==
    p[1] <= (p[2] - 1) \div k

\* C10, as claimed: a numeric label is never 0 years 0 months.
C10_AtLeastOneMonth ==
    \A row \in ResultRows :
        Numeric(row) => TotalMonths(row) >= 1

\* C10, amended: a numeric label is 0 years 0 months when the payback is
\* under half a month (1/24 year), and at least one month when the payback
\* is one month (1/12 year) or more.
C10_ZeroMonthsUnderHalfMonth ==
    \A row \in ResultRows :
        Numeric(row) =>
            LET p == PaybackYears(row)
            IN  /\ row.Payback.label = "y m"
                /\ Under(p, 24) => TotalMonths(row) = 0
                /\ ~Under(p, 12) => TotalMonths(row) >= 1

C10_Witness ==
    \E row \in ResultRows :
        /\ Numeric(row)
        /\ row.Payback = [label |-> "y m", y |-> 0, m |-> 0]

====
